---------------------------- MODULE Spec2Model ----------------------------
(***************************************************************************)
(* HBMusic (src/src/index.js): a Fastify service that searches a song by   *)
(* name over the TuneHub sources in priority order, degrades to a free     *)
(* kuwo API, proxies audio/cover/lyric bytes and shows browsers a status   *)
(* page fed by a 60-second health cache.                                   *)
(*                                                                         *)
(* Seven specifications share the definitions below:                       *)
(*   Spec        one request to `/` (UA hook, handler, orchestrator)       *)
(*   SpecFetch   fetchWithRetry on its own, with the upstream's answers    *)
(*   SpecProxy   one request to `/stream`, `/cover`, `/lyric` or `/health` *)
(*   SpecHealth  concurrent calls of checkServiceHealth over a clock       *)
(*   SpecTemplate  the template substitution of one search parameter       *)
(*   SpecCount   Spec with the upstream calls counted, under fairness      *)
(*   SpecRoutes  one request to any route, the fallback endpoints included *)
(* Every await of the source is a step: the action that takes an upstream  *)
(* answer also runs the handler's code up to its next await.               *)
(***************************************************************************)
EXTENDS Integers, Sequences, FiniteSets, TLC

VARIABLES
    CONFIG,             \* index.js:15-30 (the fields the handlers read)
    UA_FILTER_ENABLED,  \* index.js:69
    cachedHealthStatus, \* index.js:100
    clock,              \* Date.now()
    request,            \* the inbound request being served
    pc,                 \* the handler's position (which await it is at)
    srcIdx,             \* loop index of `for (const source of SOURCE_PRIORITY)`
    lastError,          \* searchAndGetSongInfo: let lastError
    shouldFallback,     \* searchAndGetSongInfo: let shouldFallback
    songId,             \* tryGetSongFromSource: const songId
    fw,                 \* the running fetchWithRetry frame
    reply,              \* the response sent to the caller
    calls,              \* history: what this request invoked upstream
    fwLog,              \* history (SpecFetch, SpecProxy): the answers so far of
                        \* the upstream API called; in SpecHealth the answer
                        \* to the probe that ended last
    outbound,           \* SpecProxy: the asset GET issued upstream
    upstreamRes,        \* SpecProxy: the asset response received
    hpc, hnow, hseen, hobs, hprobed,  \* SpecHealth: per-caller frames
    ticks,              \* SpecHealth: clock advances so far
    keyword,            \* SpecTemplate: tryGetSongFromSource's parameter
    value,              \* SpecTemplate: a value of searchConfig.params
    paramValue,         \* SpecTemplate: index.js:805 let paramValue
    upstreamCalls       \* history (SpecCount): the upstream calls of the
                        \* request to `/` that have returned or failed

vars == << CONFIG, UA_FILTER_ENABLED, cachedHealthStatus, clock, request, pc,
           srcIdx, lastError, shouldFallback, songId, fw, reply, calls, fwLog,
           outbound, upstreamRes, hpc, hnow, hseen, hobs, hprobed, ticks,
           keyword, value, paramValue, upstreamCalls >>

rootVars == << request, pc, srcIdx, lastError, shouldFallback, songId, reply, calls >>
proxyVars == << outbound, upstreamRes >>
healthVars == << hpc, hnow, hseen, hobs, hprobed, ticks >>
templateVars == << keyword, value, paramValue >>

---------------------------------------------------------------------------
(* Bounds of the model *)

MaxPriorityLen == 2     \* longest SOURCE_PRIORITY list drawn
MaxRetriesRoot == 1     \* largest MAX_RETRIES drawn for a request to `/`
MaxRetriesFetch == 2    \* largest MAX_RETRIES drawn for fetchWithRetry alone
NumCallers == 2         \* concurrent callers of checkServiceHealth
MaxTicks == 1           \* clock advances in SpecHealth
MaxSegments == 2        \* placeholders and literal pieces in a params value
MaxKeywordLen == 2      \* pieces of a keyword

(* Program constants *)

HEALTH_CHECK_INTERVAL == 60000
PROBE_TIMEOUT == 5000
BACKOFF_UNIT == 200

---------------------------------------------------------------------------
(* Values *)

Null == "null"
Sources == {"kuwo", "netease", "qq"}
Statuses == {200, 402, 403, 404, 500}

NoRes == [kind |-> "none", status |-> 0, body |-> ""]
NetFail == [kind |-> "net", status |-> 0, body |-> ""]
Http(s, b) == [kind |-> "http", status |-> s, body |-> b]

\* Response.ok
Ok(res) == res.kind = "http" /\ res.status >= 200 /\ res.status <= 299

NoErr == [text |-> "none", status |-> 0]
Err(t, s) == [text |-> t, status |-> s]

\* error.message.includes('<3 digits>'): every message the code builds is a
\* fixed text without digits followed by the 3-digit HTTP status, or has no
\* status at all (status 0)
MessageIncludes(err, digits) == err.status = digits

\* sequences without repetition over S, of length 1..n (split(',') never
\* yields an empty list)
SeqUpTo(S, n) ==
    {q \in UNION {[1..k -> S] : k \in 1..n} :
        \A i, j \in DOMAIN q : i # j => q[i] # q[j]}

---------------------------------------------------------------------------
(* fetchWithRetry, index.js:963-987 *)

FwIdle == [st |-> "idle", i |-> 0, requests |-> 0, delays |-> <<>>,
           lastError |-> NoErr, res |-> NoRes]

\* entering the function: let lastError; for (let i = 0; ...
FwStart == [FwIdle EXCEPT !.st = "running"]

\* if (res.status >= 500) throw ..., or fetch itself rejecting
AttemptFails(r) == r.kind = "net" \/ r.status >= 500

AttemptError(r) ==
    IF r.kind = "net" THEN Err("fetch failed", 0)
    ELSE Err("Server Error", r.status)

\* faulty variant: a constant delay
BackoffDelayFlat(i) == BACKOFF_UNIT
\* setTimeout(r, 200 * (i + 1))
BackoffDelay(i) == BACKOFF_UNIT * (i + 1)

\* faulty variant: one more round than MAX_RETRIES allows
RetryAllowedOnceMore(i, maxRetries) == i <= maxRetries
\* if (i < CONFIG.MAX_RETRIES) await delay
RetryAllowed(i, maxRetries) == i < maxRetries

\* faulty variant: 4xx answers are retried too
FetchWithRetryStepRetry4xx(f, r, maxRetries) ==
    IF r.kind = "http" /\ r.status < 400
    THEN [f EXCEPT !.st = "returned", !.requests = @ + 1, !.res = r]
    ELSE IF f.i < maxRetries
         THEN [f EXCEPT !.i = @ + 1, !.requests = @ + 1,
                        !.lastError = AttemptError(r),
                        !.delays = Append(@, BackoffDelay(f.i))]
         ELSE [f EXCEPT !.st = "thrown", !.i = @ + 1, !.requests = @ + 1,
                        !.lastError = AttemptError(r)]

\* faulty variant: the first error is kept instead of the last
FetchWithRetryStepFirstError(f, r, maxRetries) ==
    IF ~AttemptFails(r)
    THEN [f EXCEPT !.st = "returned", !.requests = @ + 1, !.res = r]
    ELSE LET e == IF f.lastError = NoErr THEN AttemptError(r) ELSE f.lastError
         IN  IF RetryAllowed(f.i, maxRetries)
             THEN [f EXCEPT !.i = @ + 1, !.requests = @ + 1, !.lastError = e,
                            !.delays = Append(@, BackoffDelay(f.i))]
             ELSE [f EXCEPT !.st = "thrown", !.i = @ + 1, !.requests = @ + 1,
                            !.lastError = e]

\* one iteration of the loop body with the upstream answering r; the last
\* iteration's failure leaves the loop and throws lastError
FetchWithRetryStep(f, r, maxRetries) ==
    IF ~AttemptFails(r)
    THEN [f EXCEPT !.st = "returned", !.requests = @ + 1, !.res = r]
    ELSE IF RetryAllowed(f.i, maxRetries)
         THEN [f EXCEPT !.i = @ + 1, !.requests = @ + 1,
                        !.lastError = AttemptError(r),
                        !.delays = Append(@, BackoffDelay(f.i))]
         ELSE [f EXCEPT !.st = "thrown", !.i = @ + 1, !.requests = @ + 1,
                        !.lastError = AttemptError(r)]


---------------------------------------------------------------------------
(* Configuration and requests *)

\* index.js:15-30; SOURCE_PRIORITY is any list of distinct sources
Configs(maxRetries) ==
    [FORCE_FALLBACK : BOOLEAN,
     SOURCE_PRIORITY : SeqUpTo(Sources, MaxPriorityLen),
     MAX_RETRIES : 0..maxRetries]

DefaultConfig ==
    [FORCE_FALLBACK |-> FALSE,
     SOURCE_PRIORITY |-> <<"kuwo", "netease">>,
     MAX_RETRIES |-> 0]

\* index.js:75-96
BROWSER_BLACKLIST ==
    {"Chrome/", "Firefox/", "Safari/", "Edge/", "Opera/", "MSIE", "Trident/",
     "QQBrowser/", "UCBrowser/", "MiuiBrowser/", "360SE", "360EE", "Baidu",
     "Sogou", "Quark/", "LBBROWSER", "Maxthon/", "2345Explorer/"}

\* A User-Agent is modelled by the set of keywords it contains; {} is an
\* absent header or a native HTTP client
UserAgents == {{}, {"Chrome/", "Safari/"}, {"MicroMessenger", "Chrome/", "Safari/"}}

\* "" is an absent or empty query parameter (both falsy)
NameValues == {"", "qingtian"}
HameValues == {"", "daoxiang"}

NoRequest == [route |-> "", ua |-> {}, name |-> "", hame |-> "",
              source |-> "", id |-> "", br |-> "", range |-> ""]

\* URLs: host "self" is BASE_URL, "cdn" a URL handed out by the upstream
NoUrl == [host |-> "", path |-> "", source |-> "", id |-> ""]
Url(h, p, s, i) == [host |-> h, path |-> p, source |-> s, id |-> i]

NoBody == [code |-> 0, message |-> "", keyword |-> "", source |-> "",
           link |-> NoUrl, music_url |-> NoUrl, cover |-> NoUrl, lyric |-> NoUrl]
\* response headers the proxy endpoints set; "" is an absent header
NoHeaders == [content_type |-> "", content_length |-> "",
              content_range |-> "", accept_ranges |-> ""]
NoReply == [status |-> 0, type |-> "", body |-> NoBody, headers |-> NoHeaders]
Json(status, body) == [NoReply EXCEPT !.status = status, !.type = "json",
                                      !.body = body]
Message(code, text, kw) ==
    [NoBody EXCEPT !.code = code, !.message = text, !.keyword = kw]

\* fallbackHit: the fallback API's last answer was a 200 with a song in it
NoCalls == [primary |-> <<>>, fallback |-> 0, fallbackHit |-> FALSE,
            probes |-> 0, resolves |-> 0, assets |-> 0]

\* what a function call ends with
Return(b) == [kind |-> "return", body |-> b, err |-> NoErr]
Throw(e) == [kind |-> "throw", body |-> NoBody, err |-> e]

\* the asset GET the proxy issues, and the answer it gets
NoOutbound == [url |-> NoUrl, range |-> "", referer |-> "", ua |-> ""]
NoAsset == [kind |-> "none", status |-> 0, content_type |-> "",
            content_length |-> "", content_range |-> "", accept_ranges |-> ""]

---------------------------------------------------------------------------
(* Upstream answers *)

MethodsBodies == {"cfg_ok", "cfg_invalid", "notjson"}
\* "json_null" is JSON without the nesting (data.abslist of null throws
\* inside the try), "kuwo_badrid" a MUSICRID that does not match MUSIC_<digits>
SearchBodies == {"notjson", "json_null", "kuwo_dc", "kuwo_rid", "kuwo_badrid", "kuwo_empty",
                 "netease_hit", "netease_empty", "qq_hit", "qq_empty"}
ParseBodies == {"song_full", "song_bare", "nosong", "notjson"}
FallbackBodies == {"hit", "nohit", "notjson"}

Answers(bodies) ==
    {NetFail} \cup {Http(s, "") : s \in Statuses \ {200}}
              \cup {Http(200, b) : b \in bodies}

---------------------------------------------------------------------------
(* Health cache, index.js:100-160 *)

InitialHealth == [status |-> "ok", lastCheck |-> 0]
StartClock == 2 * HEALTH_CHECK_INTERVAL

ProbeOutcomes ==
    {Http(s, "") : s \in Statuses} \cup
    {[kind |-> k, status |-> 0, body |-> ""] : k \in {"abort", "cert", "net"}}

\* faulty variant: an entry exactly 60 s old still counts as fresh
IsFreshInclusive(now, cache) == now - cache.lastCheck <= HEALTH_CHECK_INTERVAL
\* faulty variant: the cache check is skipped
IsFreshNever(now, cache) == FALSE
\* if (now - cachedHealthStatus.lastCheck < HEALTH_CHECK_INTERVAL)
IsFresh(now, cache) == now - cache.lastCheck < HEALTH_CHECK_INTERVAL

\* faulty variant: a certificate error counts as an outage
HealthOfStrictCert(o) ==
    IF o.kind = "http" THEN (IF o.status < 500 THEN "ok" ELSE "degraded")
    ELSE IF o.kind = "abort" THEN "degraded"
    ELSE "error"
\* index.js:135-156
HealthOf(o) ==
    IF o.kind = "http" THEN (IF o.status < 500 THEN "ok" ELSE "degraded")
    ELSE IF o.kind = "abort" THEN "degraded"
    ELSE IF o.kind = "cert" THEN "ok"
    ELSE "error"

Refreshed(o, now) == [status |-> HealthOf(o), lastCheck |-> now]

---------------------------------------------------------------------------
(* UA hook, index.js:163-448 *)

\* faulty variant: /health is filtered too
PROTECTED_ROUTES_WithHealth == {"/", "/health"}
\* index.js:72
PROTECTED_ROUTES == {"/"}

\* faulty variant: MicroMessenger is not let through
UaBlockedNoWeChatPass(route, ua) ==
    /\ route \in PROTECTED_ROUTES
    /\ UA_FILTER_ENABLED
    /\ ua \cap BROWSER_BLACKLIST # {}

\* faulty variant: the hook filters every route
UaBlockedAnyRoute(route, ua) ==
    /\ UA_FILTER_ENABLED
    /\ "MicroMessenger" \notin ua
    /\ ua \cap BROWSER_BLACKLIST # {}

\* TRUE when the hook answers the request itself
UaBlocked(route, ua) ==
    /\ route \in PROTECTED_ROUTES
    /\ UA_FILTER_ENABLED
    /\ "MicroMessenger" \notin ua
    /\ ua \cap BROWSER_BLACKLIST # {}

StatusPage == [NoReply EXCEPT !.status = 200, !.type = "html"]

---------------------------------------------------------------------------
(* Source adapter, index.js:785-958 *)

\* faulty variant: every source gets the kuwo template
getDetailPageLinkOneTemplate(source, id) ==
    Url("www.kuwo.cn", "/play_detail/", source, id)
\* index.js:951-958
getDetailPageLink(source, id) ==
    IF source = "kuwo" THEN Url("www.kuwo.cn", "/play_detail/", source, id)
    ELSE IF source = "netease" THEN Url("music.163.com", "/#/song?id=", source, id)
    ELSE IF source = "qq" THEN Url("y.qq.com", "/n/ryqq/songDetail/", source, id)
    ELSE NoUrl

\* index.js:876-909: the ID found in a search response, Null when the text is
\* no JSON or lacks the platform's field
extractSongId(body, source) ==
    IF body \in {"notjson", "json_null"} THEN Null
    ELSE IF source = "kuwo" THEN
        (IF body = "kuwo_dc" THEN "dc1001"
         ELSE IF body = "kuwo_rid" THEN "1002"
         ELSE Null)
    ELSE IF source = "netease" THEN
        (IF body = "netease_hit" THEN "1003" ELSE Null)
    ELSE IF source = "qq" THEN
        (IF body = "qq_hit" THEN "mid1004" ELSE Null)
    ELSE Null

\* faulty variant: the cover is taken from the first source of the list
SongRecordMerged(source, id, body) ==
    [NoBody EXCEPT
        !.code = 200,
        !.source = source,
        !.link = getDetailPageLink(source, id),
        !.cover = Url("cdn", "/cover", CONFIG.SOURCE_PRIORITY[1], id),
        !.music_url = Url("self", "/stream", source, id),
        !.lyric = Url("self", "/lyric", source, id)]

\* index.js:855-870: `x || fallback` over the fields of songs[0]
SongRecord(source, id, body) ==
    LET full == body = "song_full" IN
    [NoBody EXCEPT
        !.code = 200,
        !.source = source,
        !.link = getDetailPageLink(source, id),
        !.cover = IF full THEN Url("cdn", "/cover", source, id) ELSE NoUrl,
        !.music_url = IF full THEN Url("cdn", "/audio", source, id)
                      ELSE Url("self", "/stream", source, id),
        !.lyric = IF full THEN Url("cdn", "/lyrics", source, id)
                  ELSE Url("self", "/lyric", source, id)]

\* index.js:930-945, song.rid of data.data[0]
FallbackRid == "rid2001"
FallbackRecord ==
    [NoBody EXCEPT
        !.code = 200,
        !.source = "kuwo-fallback",
        !.link = Url("www.kuwo.cn", "/play_detail/", "kuwo", FallbackRid),
        !.cover = Url("cdn", "/pic", "kuwo", FallbackRid),
        !.music_url = Url("self", "/fallback-stream", "", FallbackRid),
        !.lyric = Url("self", "/fallback-lyric", "", FallbackRid)]

\* faulty variant: the descriptor's code and data are not checked
MethodsOutcomeUnchecked(f) ==
    IF f.st = "thrown" THEN Throw(f.lastError)
    ELSE IF ~Ok(f.res) THEN Throw(Err("methods failed", f.res.status))
    ELSE IF f.res.body = "notjson" THEN Throw(Err("json syntax", 0))
    ELSE [kind |-> "search", body |-> NoBody, err |-> NoErr]

\* tryGetSongFromSource after the descriptor fetch (index.js:788-797):
\* "search" when the search request goes out, else what it throws
MethodsOutcome(f) ==
    IF f.st = "thrown" THEN Throw(f.lastError)
    ELSE IF ~Ok(f.res) THEN Throw(Err("methods failed", f.res.status))
    ELSE IF f.res.body = "notjson" THEN Throw(Err("json syntax", 0))
    ELSE IF f.res.body = "cfg_invalid" THEN Throw(Err("config invalid", 0))
    ELSE [kind |-> "search", body |-> NoBody, err |-> NoErr]

\* faulty variant: a text that is no JSON makes the adapter throw
SearchOutcomeThrowing(r, source) ==
    IF r.kind = "net" THEN Throw(Err("fetch failed", 0))
    ELSE IF ~Ok(r) THEN Throw(Err("search failed", r.status))
    ELSE IF r.body \in {"notjson", "json_null"} THEN Throw(Err("json syntax", 0))
    ELSE IF extractSongId(r.body, source) = Null THEN Return(NoBody)
    ELSE [kind |-> "parse", body |-> NoBody, err |-> NoErr]

\* index.js:816-829: the plain fetch of the platform's search URL
SearchOutcome(r, source) ==
    IF r.kind = "net" THEN Throw(Err("fetch failed", 0))
    ELSE IF ~Ok(r) THEN Throw(Err("search failed", r.status))
    ELSE IF extractSongId(r.body, source) = Null THEN Return(NoBody)
    ELSE [kind |-> "parse", body |-> NoBody, err |-> NoErr]

\* index.js:833-870
ParseOutcome(f, source, id) ==
    IF f.st = "thrown" THEN Throw(f.lastError)
    ELSE IF ~Ok(f.res) THEN Throw(Err("parse failed", f.res.status))
    ELSE IF f.res.body = "notjson" THEN Throw(Err("json syntax", 0))
    ELSE IF f.res.body = "nosong" THEN Throw(Err("parse song failed", 0))
    ELSE Return(SongRecord(source, id, f.res.body))

\* faulty variant: an empty result is returned as null, not thrown
KuwoFallbackOutcomeNullOnMiss(f) ==
    IF f.st = "thrown" THEN Throw(f.lastError)
    ELSE IF ~Ok(f.res) THEN Throw(Err("fallback request failed", f.res.status))
    ELSE IF f.res.body = "notjson" THEN Throw(Err("json syntax", 0))
    ELSE IF f.res.body = "nohit" THEN Return(NoBody)
    ELSE Return(FallbackRecord)

\* tryKuwoFallbackAPI, index.js:914-946: a record or an exception
KuwoFallbackOutcome(f) ==
    IF f.st = "thrown" THEN Throw(f.lastError)
    ELSE IF ~Ok(f.res) THEN Throw(Err("fallback request failed", f.res.status))
    ELSE IF f.res.body = "notjson" THEN Throw(Err("json syntax", 0))
    ELSE IF f.res.body = "nohit" THEN Throw(Err("fallback no result", 0))
    ELSE Return(FallbackRecord)

---------------------------------------------------------------------------
(* Orchestrator, index.js:724-779, over the frame of one request *)

\* index.js:458: const name = request.query.name || request.query.hame
Keyword(name, hame) == IF name # "" THEN name ELSE hame

Frame == [pc |-> pc, srcIdx |-> srcIdx, lastError |-> lastError,
          shouldFallback |-> shouldFallback, songId |-> songId, fw |-> fw,
          reply |-> reply, calls |-> calls,
          keyword |-> Keyword(request.name, request.hame)]

SetFrame(S) ==
    /\ pc' = S.pc
    /\ srcIdx' = S.srcIdx
    /\ lastError' = S.lastError
    /\ shouldFallback' = S.shouldFallback
    /\ songId' = S.songId
    /\ fw' = S.fw
    /\ reply' = S.reply
    /\ calls' = S.calls

\* the handler of `/` returning `result`: Fastify sends it with status 200
\* (index.js:468-469)
HandlerReturns(S, body) ==
    [S EXCEPT !.pc = "done", !.fw = FwIdle, !.reply = Json(200, body)]

\* reply.code(n).send(body)
ReplySends(S, n, body) ==
    [S EXCEPT !.pc = "done", !.fw = FwIdle, !.reply = Json(n, body)]

\* entering tryKuwoFallbackAPI: its fetchWithRetry starts
CallKuwoFallback(S, at) ==
    [S EXCEPT !.pc = at, !.fw = FwStart, !.calls.fallback = @ + 1]

\* entering tryGetSongFromSource for SOURCE_PRIORITY[i]
CallSource(S, i) ==
    [S EXCEPT !.pc = "methods", !.srcIdx = i, !.fw = FwStart, !.songId = Null,
              !.calls.primary =
                  Append(@, [source |-> CONFIG.SOURCE_PRIORITY[i],
                             outcome |-> "pending"])]

\* index.js:778
NotFound(S) ==
    HandlerReturns(S, Message(404, "song not found", S.keyword))

\* faulty variant: only a quota signal leads to the fallback API
DegradeGuardQuotaOnly(S) == S.shouldFallback
\* index.js:764-778, before the await
DegradeGuard(S) == S.shouldFallback \/ S.lastError # NoErr

AfterLoop(S) ==
    IF DegradeGuard(S) THEN CallKuwoFallback(S, "fallback") ELSE NotFound(S)

\* the for loop reaching index i
LoopAt(S, i) ==
    IF i <= Len(CONFIG.SOURCE_PRIORITY) THEN CallSource(S, i) ELSE AfterLoop(S)

\* index.js:754
IsQuotaError(err) ==
    MessageIncludes(err, 403) \/ MessageIncludes(err, 402)

Mark(S, o) == [S EXCEPT !.calls.primary[Len(S.calls.primary)].outcome = o]

\* faulty variant: a quota error only moves on to the next source
SourceEndsIgnoreQuota(S, out) ==
    IF out.kind = "return" /\ out.body # NoBody
    THEN HandlerReturns(Mark(S, "success"), out.body)
    ELSE IF out.kind = "return"
    THEN LoopAt(Mark(S, "notfound"), S.srcIdx + 1)
    ELSE LoopAt([Mark(S, IF IsQuotaError(out.err) THEN "quota" ELSE "error")
                    EXCEPT !.lastError = out.err], S.srcIdx + 1)

\* faulty variant: a found record does not end the loop
SourceEndsKeepLooking(S, out) ==
    IF out.kind = "return"
    THEN LoopAt(Mark(S, IF out.body # NoBody THEN "success" ELSE "notfound"),
                S.srcIdx + 1)
    ELSE IF IsQuotaError(out.err)
    THEN AfterLoop([Mark(S, "quota") EXCEPT !.lastError = out.err,
                                            !.shouldFallback = TRUE])
    ELSE LoopAt([Mark(S, "error") EXCEPT !.lastError = out.err], S.srcIdx + 1)

\* faulty variant: an exception of a source is not caught
SourceEndsUncaught(S, out) ==
    IF out.kind = "return" /\ out.body # NoBody
    THEN HandlerReturns(Mark(S, "success"), out.body)
    ELSE IF out.kind = "return"
    THEN LoopAt(Mark(S, "notfound"), S.srcIdx + 1)
    ELSE ReplySends([Mark(S, "error") EXCEPT !.lastError = out.err], 500,
                    Message(500, "internal error", ""))

\* the loop body's ending for the current source (index.js:746-761)
SourceEnds(S, out) ==
    IF out.kind = "return" /\ out.body # NoBody
    THEN HandlerReturns(Mark(S, "success"), out.body)
    ELSE IF out.kind = "return"
    THEN LoopAt(Mark(S, "notfound"), S.srcIdx + 1)
    ELSE IF IsQuotaError(out.err)
    THEN AfterLoop([Mark(S, "quota") EXCEPT !.lastError = out.err,
                                            !.shouldFallback = TRUE])
    ELSE LoopAt([Mark(S, "error") EXCEPT !.lastError = out.err], S.srcIdx + 1)

\* index.js:726-738: the forced fallback's ending; a falsy result falls
\* through to the loop
ForcedEnds(S, out) ==
    IF out.kind = "throw"
    THEN HandlerReturns(S, Message(500, "fallback API failed", ""))
    ELSE IF out.body # NoBody THEN HandlerReturns(S, out.body)
    ELSE LoopAt(S, 1)

\* faulty variant: the fallback's failure is surfaced as an error
DegradeEndsSurfacing(S, out) ==
    IF out.kind = "return" /\ out.body # NoBody
    THEN HandlerReturns(S, out.body)
    ELSE HandlerReturns(S, Message(500, "fallback API failed", ""))
\* index.js:766-778
DegradeEnds(S, out) ==
    IF out.kind = "return" /\ out.body # NoBody
    THEN HandlerReturns(S, out.body)
    ELSE NotFound(S)

\* index.js:724-743, up to the first await
searchAndGetSongInfo(S) ==
    IF CONFIG.FORCE_FALLBACK
    THEN CallKuwoFallback(S, "forced")
    ELSE LoopAt(S, 1)

\* faulty variant: the 400 is put in the body only
RootHandlerBodyOnly(S, name, hame) ==
    IF Keyword(name, hame) = ""
    THEN HandlerReturns(S, Message(400, "missing name", ""))
    ELSE searchAndGetSongInfo([S EXCEPT !.keyword = Keyword(name, hame)])

\* index.js:456-477, up to the first await
RootHandler(S, name, hame) ==
    IF Keyword(name, hame) = ""
    THEN ReplySends(S, 400, Message(400, "missing name", ""))
    ELSE searchAndGetSongInfo([S EXCEPT !.keyword = Keyword(name, hame)])

---------------------------------------------------------------------------
(* Actions of a request to `/` *)

Source == CONFIG.SOURCE_PRIORITY[srcIdx]

\* the frame after one more answer to the running fetchWithRetry
Answered(r) ==
    [Frame EXCEPT !.fw = FetchWithRetryStep(fw, r, CONFIG.MAX_RETRIES)]

\* the same for the fallback API, noting whether it answered with a song
AnsweredFallback(r) ==
    [Answered(r) EXCEPT !.calls.fallbackHit = (r = Http(200, "hit"))]

\* the count of upstream calls is kept only where it is switched on
NotCounted == [on |-> FALSE, primary |-> 0, fallback |-> 0]
Counted(c, kind) == IF c.on THEN [c EXCEPT ![kind] = @ + 1] ELSE c

\* the request arrives: the UA hook (index.js:163-448), then the handler
\* (index.js:456-477), up to the first await
RootRequest(ua, name, hame) ==
    /\ pc = "idle"
    /\ request' = [NoRequest EXCEPT !.route = "/", !.ua = ua,
                                    !.name = name, !.hame = hame]
    /\ IF UaBlocked("/", ua)
       THEN IF IsFresh(clock, cachedHealthStatus)
            THEN SetFrame([Frame EXCEPT !.pc = "done", !.reply = StatusPage])
            ELSE SetFrame([Frame EXCEPT !.pc = "health",
                                        !.calls.probes = @ + 1])
       ELSE SetFrame(RootHandler(Frame, name, hame))
    /\ UNCHANGED << templateVars, upstreamCalls, CONFIG, UA_FILTER_ENABLED,
                    cachedHealthStatus, clock,
                    fwLog, proxyVars, healthVars >>

\* the hook's health probe ends (index.js:112-159) and the page is sent
RootProbeAnswer(o) ==
    /\ pc = "health"
    /\ cachedHealthStatus' = Refreshed(o, clock)
    /\ SetFrame([Frame EXCEPT !.pc = "done", !.reply = StatusPage])
    /\ UNCHANGED << templateVars, upstreamCalls, CONFIG, UA_FILTER_ENABLED,
                    clock, request,
                    fwLog, proxyVars, healthVars >>

\* an answer to the descriptor fetch (index.js:788); when the search request
\* goes out no fetchWithRetry runs, and methodRes stays in scope
MethodsAnswer(r) ==
    /\ pc = "methods"
    /\ LET S == Answered(r)
           out == MethodsOutcome(S.fw)
       IN  IF S.fw.st = "running" THEN SetFrame(S)
           ELSE IF out.kind = "search"
           THEN SetFrame([S EXCEPT !.pc = "search",
                                   !.fw = [FwIdle EXCEPT !.res = S.fw.res]])
           ELSE SetFrame(SourceEnds(S, out))
    /\ upstreamCalls' = Counted(upstreamCalls, "primary")
    /\ UNCHANGED << templateVars, CONFIG, UA_FILTER_ENABLED,
                    cachedHealthStatus, clock,
                    request, fwLog, proxyVars, healthVars >>

\* the answer to the platform search (index.js:816), a plain fetch
SearchAnswer(r) ==
    /\ pc = "search"
    /\ LET S == Frame
           out == SearchOutcome(r, Source)
       IN  IF out.kind = "parse"
           THEN SetFrame([S EXCEPT !.pc = "parse", !.fw = FwStart,
                                   !.songId = extractSongId(r.body, Source)])
           ELSE SetFrame(SourceEnds(S, out))
    /\ upstreamCalls' = Counted(upstreamCalls, "primary")
    /\ UNCHANGED << templateVars, CONFIG, UA_FILTER_ENABLED,
                    cachedHealthStatus, clock,
                    request, fwLog, proxyVars, healthVars >>

\* an answer to the resolve call (index.js:833)
ParseAnswer(r) ==
    /\ pc = "parse"
    /\ LET S == Answered(r)
       IN  IF S.fw.st = "running" THEN SetFrame(S)
           ELSE SetFrame(SourceEnds(S, ParseOutcome(S.fw, Source, songId)))
    /\ upstreamCalls' = Counted(upstreamCalls, "primary")
    /\ UNCHANGED << templateVars, CONFIG, UA_FILTER_ENABLED,
                    cachedHealthStatus, clock,
                    request, fwLog, proxyVars, healthVars >>

\* an answer to the fallback API under FORCE_FALLBACK (index.js:729)
ForcedAnswer(r) ==
    /\ pc = "forced"
    /\ LET S == AnsweredFallback(r)
       IN  IF S.fw.st = "running" THEN SetFrame(S)
           ELSE SetFrame(ForcedEnds(S, KuwoFallbackOutcome(S.fw)))
    /\ upstreamCalls' = Counted(upstreamCalls, "fallback")
    /\ UNCHANGED << templateVars, CONFIG, UA_FILTER_ENABLED,
                    cachedHealthStatus, clock,
                    request, fwLog, proxyVars, healthVars >>

\* faulty variant: a failed fallback marks the service as degraded
DegradeAnswerMarksHealth(r) ==
    /\ pc = "fallback"
    /\ LET S == AnsweredFallback(r)
       IN  IF S.fw.st = "running"
           THEN SetFrame(S) /\ UNCHANGED cachedHealthStatus
           ELSE /\ SetFrame(DegradeEnds(S, KuwoFallbackOutcome(S.fw)))
                /\ cachedHealthStatus' =
                      IF KuwoFallbackOutcome(S.fw).kind = "throw"
                      THEN [status |-> "degraded", lastCheck |-> clock]
                      ELSE cachedHealthStatus
    /\ upstreamCalls' = Counted(upstreamCalls, "fallback")
    /\ UNCHANGED << templateVars, CONFIG, UA_FILTER_ENABLED,
                    clock,
                    request, fwLog, proxyVars, healthVars >>

\* an answer to the fallback API after the loop (index.js:768)
DegradeAnswer(r) ==
    /\ pc = "fallback"
    /\ LET S == AnsweredFallback(r)
       IN  IF S.fw.st = "running" THEN SetFrame(S)
           ELSE SetFrame(DegradeEnds(S, KuwoFallbackOutcome(S.fw)))
    /\ upstreamCalls' = Counted(upstreamCalls, "fallback")
    /\ UNCHANGED << templateVars, CONFIG, UA_FILTER_ENABLED,
                    cachedHealthStatus, clock,
                    request, fwLog, proxyVars, healthVars >>

IdleFrame ==
    /\ request = NoRequest
    /\ pc = "idle"
    /\ srcIdx = 0
    /\ lastError = NoErr
    /\ shouldFallback = FALSE
    /\ songId = Null
    /\ fw = FwIdle
    /\ reply = NoReply
    /\ calls = NoCalls
    /\ fwLog = << >>
    /\ outbound = NoOutbound
    /\ upstreamRes = NoAsset

\* no template substitution under way
IdleTemplate ==
    /\ keyword = << >>
    /\ value = << >>
    /\ paramValue = << >>

IdleHealth ==
    /\ cachedHealthStatus = InitialHealth
    /\ clock = StartClock
    /\ hpc = [p \in 1..NumCallers |-> "idle"]
    /\ hnow = [p \in 1..NumCallers |-> 0]
    /\ hseen = [p \in 1..NumCallers |-> InitialHealth]
    /\ hobs = [p \in 1..NumCallers |-> ""]
    /\ hprobed = [p \in 1..NumCallers |-> FALSE]
    /\ ticks = 0

Init ==
    /\ CONFIG \in Configs(MaxRetriesRoot)
    /\ UA_FILTER_ENABLED \in BOOLEAN
    /\ IdleFrame
    /\ IdleHealth
    /\ IdleTemplate
    /\ upstreamCalls = NotCounted

Next ==
    \/ \E ua \in UserAgents, name \in NameValues, hame \in HameValues :
          RootRequest(ua, name, hame)
    \/ \E o \in ProbeOutcomes : RootProbeAnswer(o)
    \/ \E r \in Answers(MethodsBodies) : MethodsAnswer(r)
    \/ \E r \in Answers(SearchBodies) : SearchAnswer(r)
    \/ \E r \in Answers(ParseBodies) : ParseAnswer(r)
    \/ \E r \in Answers(FallbackBodies) : ForcedAnswer(r)
    \/ \E r \in Answers(FallbackBodies) : DegradeAnswer(r)

Spec == Init /\ [][Next]_vars

\* the same request with its upstream calls counted, every call returning
\* or failing in the end; SOURCE_PRIORITY is the default order cut short
PriorityPrefixes ==
    {SubSeq(<< "kuwo", "netease", "qq" >>, 1, n) : n \in 1..MaxPriorityLen}

InitCount ==
    /\ CONFIG \in {c \in Configs(MaxRetriesRoot) :
                      c.SOURCE_PRIORITY \in PriorityPrefixes}
    /\ UA_FILTER_ENABLED = TRUE
    /\ IdleFrame
    /\ IdleHealth
    /\ IdleTemplate
    /\ upstreamCalls = [NotCounted EXCEPT !.on = TRUE]

NextCount ==
    \/ \E ua \in UserAgents : RootRequest(ua, "qingtian", "")
    \/ \E o \in ProbeOutcomes : RootProbeAnswer(o)
    \/ \E r \in Answers(MethodsBodies) : MethodsAnswer(r)
    \/ \E r \in Answers(SearchBodies) : SearchAnswer(r)
    \/ \E r \in Answers(ParseBodies) : ParseAnswer(r)
    \/ \E r \in Answers(FallbackBodies) : ForcedAnswer(r)
    \/ \E r \in Answers(FallbackBodies) : DegradeAnswer(r)

SpecCount == InitCount /\ [][NextCount]_vars /\ WF_vars(NextCount)

---------------------------------------------------------------------------
(* fetchWithRetry on its own *)

FetchAnswer(r) ==
    /\ pc = "fetch"
    /\ fw' = FetchWithRetryStep(fw, r, CONFIG.MAX_RETRIES)
    /\ fwLog' = Append(fwLog, r)
    /\ pc' = IF fw'.st = "running" THEN "fetch" ELSE "done"
    /\ UNCHANGED << templateVars, upstreamCalls, CONFIG, UA_FILTER_ENABLED,
                    cachedHealthStatus, clock,
                    request, srcIdx, lastError, shouldFallback, songId, reply,
                    calls, proxyVars, healthVars >>

InitFetch ==
    /\ CONFIG \in {[DefaultConfig EXCEPT !.MAX_RETRIES = n] :
                      n \in 0..MaxRetriesFetch}
    /\ UA_FILTER_ENABLED = TRUE
    /\ IdleHealth
    /\ IdleTemplate
    /\ upstreamCalls = NotCounted
    /\ request = NoRequest
    /\ pc = "fetch"
    /\ srcIdx = 0
    /\ lastError = NoErr
    /\ shouldFallback = FALSE
    /\ songId = Null
    /\ fw = FwStart
    /\ reply = NoReply
    /\ calls = NoCalls
    /\ fwLog = << >>
    /\ outbound = NoOutbound
    /\ upstreamRes = NoAsset

\* a second 5xx tells the errors of two failed attempts apart
FetchAnswers == Answers({"payload"}) \cup {Http(503, "")}

NextFetch == \E r \in FetchAnswers : FetchAnswer(r)

SpecFetch == InitFetch /\ [][NextFetch]_vars

---------------------------------------------------------------------------
(* Claims on the orchestrator (Spec) *)

Attempts == calls.primary
Succeeded(i) == Attempts[i].outcome = "success"

\* C1: with FORCE_FALLBACK off, when an attempt on a source succeeds the
\* request ends with a code-200 record whose `source` is that source; the
\* attempts follow SOURCE_PRIORITY and every earlier one failed, so the
\* source is the first in priority order whose attempt succeeds
C1_FirstSuccessWins ==
    (pc = "done" /\ ~CONFIG.FORCE_FALLBACK /\ \E i \in DOMAIN Attempts : Succeeded(i))
    => LET i == CHOOSE k \in DOMAIN Attempts : Succeeded(k)
       IN  /\ reply.body.code = 200
           /\ reply.body.source = Attempts[i].source
           /\ Len(Attempts) <= Len(CONFIG.SOURCE_PRIORITY)
           /\ \A j \in DOMAIN Attempts :
                 /\ Attempts[j].source = CONFIG.SOURCE_PRIORITY[j]
                 /\ j < i => Attempts[j].outcome \in {"notfound", "error"}
                 /\ j <= i

C1_Witness ==
    /\ pc = "done" /\ ~CONFIG.FORCE_FALLBACK
    /\ Len(Attempts) = 2
    /\ Attempts[1].outcome = "error"
    /\ Succeeded(2)
    /\ reply.body.source = "netease"

\* C2: once an attempt on a primary source signals quota exhaustion,
\* tryKuwoFallbackAPI has been invoked exactly once in the request and that
\* attempt stays the last primary attempt
C2_QuotaDegradesOnce ==
    \A i \in DOMAIN Attempts :
        Attempts[i].outcome = "quota"
        => /\ i = Len(Attempts)
           /\ calls.fallback = 1

C2_Witness ==
    /\ pc = "done"
    /\ Len(Attempts) = 1
    /\ Attempts[1].outcome = "quota"
    /\ Len(CONFIG.SOURCE_PRIORITY) = 2
    /\ calls.fallback = 1

\* C3: with FORCE_FALLBACK on, tryGetSongFromSource is never entered,
\* whatever the priority list holds and however the fallback API answers
C3_ForcedNeverPrimary ==
    CONFIG.FORCE_FALLBACK => Attempts = << >>

C3_Witness ==
    /\ pc = "done" /\ CONFIG.FORCE_FALLBACK
    /\ Len(CONFIG.SOURCE_PRIORITY) = 2
    /\ calls.fallback = 1
    /\ reply.body.code = 500

\* C7 as stated: every request to `/` without a name is answered 400 with
\* body code 400 and no upstream call, whatever its User-Agent and its other
\* parameters
C7_MissingNameAlways400 ==
    (pc = "done" /\ request.route = "/" /\ request.name = "")
    => /\ reply.status = 400
       /\ reply.body.code = 400
       /\ calls = NoCalls

PassesHook(ua) ==
    \/ ~UA_FILTER_ENABLED
    \/ "MicroMessenger" \in ua
    \/ ua \cap BROWSER_BLACKLIST = {}

\* C7 amended: a request to `/` that the UA hook lets through and that has
\* neither a name nor a hame parameter is answered 400 with body code 400
\* and no upstream call
C7_MissingNameAndHame400 ==
    (/\ pc = "done" /\ request.route = "/"
     /\ request.name = "" /\ request.hame = ""
     /\ PassesHook(request.ua))
    => /\ reply.status = 400
       /\ reply.type = "json"
       /\ reply.body.code = 400
       /\ calls = NoCalls

C7_Witness ==
    /\ pc = "done" /\ request.route = "/"
    /\ request.name = "" /\ request.hame = ""
    /\ UA_FILTER_ENABLED
    /\ request.ua = {"MicroMessenger", "Chrome/", "Safari/"}
    /\ reply.status = 400

\* C8 as stated: when neither a primary source nor the fallback produced a
\* result, the response to `/` has HTTP status 404 and echoes the keyword
C8_NotFoundIs404 ==
    (/\ pc = "done" /\ reply.type = "json"
     /\ Keyword(request.name, request.hame) # ""
     /\ reply.body.code # 200)
    => /\ reply.status = 404
       /\ reply.body.keyword = Keyword(request.name, request.hame)

---------------------------------------------------------------------------
(* Claims on fetchWithRetry (SpecFetch) *)

FailsAt(i) == fwLog[i].kind = "net" \/ fwLog[i].status >= 500

\* C4: when the first k <= MAX_RETRIES answers fail (network, status >= 500)
\* and answer k+1 has a status < 500, fetchWithRetry has returned that answer
\* after exactly k+1 requests, having waited 200*i ms after failure i
C4_RetryThenSuccess ==
    \A k \in 0..CONFIG.MAX_RETRIES :
        (/\ Len(fwLog) >= k + 1
         /\ \A i \in 1..k : FailsAt(i)
         /\ ~FailsAt(k + 1))
        => /\ fw.st = "returned"
           /\ fw.res = fwLog[k + 1]
           /\ fw.requests = k + 1
           /\ Len(fwLog) = k + 1
           /\ fw.delays = [i \in 1..k |-> 200 * i]

C4_Witness ==
    /\ pc = "done" /\ CONFIG.MAX_RETRIES = 2
    /\ fwLog = << Http(500, ""), Http(500, ""), Http(200, "payload") >>
    /\ fw.st = "returned"
    /\ fw.delays = << 200, 400 >>

\* C5: when every answer fails, fetchWithRetry throws after exactly
\* MAX_RETRIES+1 requests, the error is the last attempt's, and nothing is
\* returned; it never issues more than MAX_RETRIES+1 requests
C5_ExhaustedThrowsLast ==
    LET n == CONFIG.MAX_RETRIES IN
    /\ fw.requests = Len(fwLog)
    /\ Len(fwLog) <= n + 1
    /\ (\A i \in DOMAIN fwLog : FailsAt(i))
       => IF Len(fwLog) = n + 1
          THEN /\ fw.st = "thrown"
               /\ fw.res = NoRes
               /\ fw.lastError.status = fwLog[n + 1].status
               /\ fw.lastError.text =
                     (IF fwLog[n + 1].kind = "net" THEN "fetch failed"
                      ELSE "Server Error")
          ELSE fw.st = "running"

C5_Witness ==
    /\ pc = "done" /\ CONFIG.MAX_RETRIES = 2
    /\ fwLog = << Http(500, ""), NetFail, Http(503, "") >>
    /\ fw.st = "thrown"

\* C6: a first answer with a status below 500 (4xx included) is returned
\* as it is after that one request, with no retry, no delay and no throw
C6_Non5xxReturnedAsIs ==
    (Len(fwLog) >= 1 /\ fwLog[1].kind = "http" /\ fwLog[1].status < 500)
    => /\ fw.st = "returned"
       /\ fw.res = fwLog[1]
       /\ fw.requests = 1
       /\ fw.delays = << >>
       /\ Len(fwLog) = 1

C6_Witness ==
    /\ pc = "done" /\ CONFIG.MAX_RETRIES = 2
    /\ fwLog = << Http(403, "") >>
    /\ fw.st = "returned"


---------------------------------------------------------------------------
(* /stream, index.js:480-552 *)

AssetAnswers ==
    {[NoAsset EXCEPT !.kind = "net"]} \cup
    [kind : {"http"}, status : {200, 206, 404},
     content_type : {"", "audio/flac"}, content_length : {"", "100"},
     content_range : {"", "bytes 0-99/1000"},
     accept_ranges : {"", "bytes", "none"}]

\* faulty variant: only `source` is required
MissingParamsSourceOnly(source, id) == source = ""
\* index.js:483, 558, 607: if (!source || !id)
MissingParams(source, id) == source = "" \/ id = ""

\* faulty variant: the Range header is not forwarded
AudioRequestNoRange(req, url) ==
    [url |-> url, range |-> "",
     ua |-> "Mozilla/5.0",
     referer |-> IF req.source = "netease" THEN "https://music.163.com/" ELSE ""]

\* index.js:521-530: the headers of the GET to the resolved audio URL
AudioRequest(req, url) ==
    [url |-> url, range |-> req.range,
     ua |-> "Mozilla/5.0",
     referer |-> IF req.source = "netease" THEN "https://music.163.com/" ELSE ""]

\* index.js:535-546: the headers and status sent back with the audio
AudioReply(a) ==
    [NoReply EXCEPT
        !.status = a.status,
        !.type = "stream",
        !.headers = [content_type |-> IF a.content_type # "" THEN a.content_type
                                      ELSE "audio/mpeg",
                     accept_ranges |-> "bytes",
                     content_length |-> a.content_length,
                     content_range |-> a.content_range]]

ProxyError(n, text) == Json(n, Message(0, text, ""))

\* the request arrives: the UA hook passes it (not a protected route) and
\* the handler runs up to the resolve call (index.js:481-502)
StreamRequest(ua, source, id, br, range) ==
    /\ pc = "idle"
    /\ request' = [NoRequest EXCEPT !.route = "/stream", !.ua = ua,
                                    !.source = source, !.id = id, !.br = br,
                                    !.range = range]
    /\ IF UaBlocked("/stream", ua)
       THEN pc' = "done" /\ reply' = StatusPage /\ calls' = calls
       ELSE IF MissingParams(source, id)
       THEN /\ pc' = "done"
            /\ reply' = ProxyError(400, "missing source or id")
            /\ calls' = calls
       ELSE /\ pc' = "stream_parse"
            /\ reply' = reply
            /\ calls' = [calls EXCEPT !.resolves = @ + 1]
    /\ UNCHANGED << templateVars, upstreamCalls, CONFIG, UA_FILTER_ENABLED,
                    cachedHealthStatus, clock,
                    srcIdx, lastError, shouldFallback, songId, fw, fwLog,
                    proxyVars, healthVars >>

\* the answer of POST /v1/parse, a plain fetch (index.js:491-532)
StreamParseAnswer(r) ==
    /\ pc = "stream_parse"
    /\ IF r.kind = "net" \/ ~Ok(r) \/ r.body = "notjson"
       THEN /\ pc' = "done"
            /\ reply' = ProxyError(502, IF r.kind = "http" /\ ~Ok(r)
                                        THEN "parse failed"
                                        ELSE "audio fetch failed")
            /\ UNCHANGED << outbound, calls >>
       ELSE IF r.body # "song_full"
       THEN /\ pc' = "done"
            /\ reply' = ProxyError(404, "audio not found")
            /\ UNCHANGED << outbound, calls >>
       ELSE /\ pc' = "stream_audio"
            /\ outbound' = AudioRequest(request,
                               Url("cdn", "/audio", request.source, request.id))
            /\ calls' = [calls EXCEPT !.assets = @ + 1]
            /\ reply' = reply
    /\ fwLog' = Append(fwLog, r)
    /\ UNCHANGED << templateVars, upstreamCalls, CONFIG, UA_FILTER_ENABLED,
                    cachedHealthStatus, clock,
                    request, srcIdx, lastError, shouldFallback, songId, fw,
                    upstreamRes, healthVars >>

\* the answer of the GET to the audio URL (index.js:532-551)
StreamAudioAnswer(a) ==
    /\ pc = "stream_audio"
    /\ upstreamRes' = a
    /\ pc' = "done"
    /\ reply' = IF a.kind = "net" THEN ProxyError(502, "audio fetch failed")
                ELSE AudioReply(a)
    /\ UNCHANGED << templateVars, upstreamCalls, CONFIG, UA_FILTER_ENABLED,
                    cachedHealthStatus, clock,
                    request, srcIdx, lastError, shouldFallback, songId, fw,
                    fwLog, calls, outbound, healthVars >>

---------------------------------------------------------------------------
(* /cover and /lyric, index.js:555-651: the two handlers differ in the     *)
(* field of songs[0] they read and in the headers of the reply             *)

AssetRoutes == {"/cover", "/lyric"}

\* index.js:594, 643: fetch(url, { redirect: 'follow' }) sets no header
PlainAssetRequest(url) == [NoOutbound EXCEPT !.url = url]

\* songs[0].cover / songs[0].lyrics
AssetUrl(req) ==
    Url("cdn", IF req.route = "/cover" THEN "/cover" ELSE "/lyrics",
        req.source, req.id)

\* index.js:595-597, 644-647: no reply.code, so the status stays 200
AssetReply(route, a) ==
    [NoReply EXCEPT
        !.status = 200,
        !.type = "stream",
        !.headers.content_type =
            IF route = "/lyric" THEN "text/plain; charset=utf-8"
            ELSE IF a.content_type # "" THEN a.content_type
            ELSE "image/jpeg"]

\* the request arrives and the handler runs up to the resolve call
\* (index.js:556-575, 605-624)
AssetRequest(route, ua, source, id) ==
    /\ pc = "idle"
    /\ request' = [NoRequest EXCEPT !.route = route, !.ua = ua,
                                    !.source = source, !.id = id]
    /\ IF UaBlocked(route, ua)
       THEN pc' = "done" /\ reply' = StatusPage /\ calls' = calls
       ELSE IF MissingParams(source, id)
       THEN /\ pc' = "done"
            /\ reply' = ProxyError(400, "missing parameter")
            /\ calls' = calls
       ELSE /\ pc' = "asset_parse"
            /\ reply' = reply
            /\ calls' = [calls EXCEPT !.resolves = @ + 1]
    /\ UNCHANGED << templateVars, upstreamCalls, CONFIG, UA_FILTER_ENABLED,
                    cachedHealthStatus, clock,
                    srcIdx, lastError, shouldFallback, songId, fw, fwLog,
                    proxyVars, healthVars >>

\* faulty variant: a failed resolve call is issued once more
AssetParseAnswerRetrying(r) ==
    /\ pc = "asset_parse"
    /\ IF (r.kind = "net" \/ ~Ok(r)) /\ calls.resolves < 2
       THEN /\ pc' = pc
            /\ calls' = [calls EXCEPT !.resolves = @ + 1]
            /\ UNCHANGED << outbound, reply >>
       ELSE IF r.kind = "net" \/ ~Ok(r) \/ r.body # "song_full"
       THEN /\ pc' = "done"
            /\ reply' = ProxyError(502, "parse failed")
            /\ UNCHANGED << outbound, calls >>
       ELSE /\ pc' = "asset_get"
            /\ outbound' = PlainAssetRequest(AssetUrl(request))
            /\ calls' = [calls EXCEPT !.assets = @ + 1]
            /\ reply' = reply
    /\ fwLog' = Append(fwLog, r)
    /\ UNCHANGED << templateVars, upstreamCalls, CONFIG, UA_FILTER_ENABLED,
                    cachedHealthStatus, clock,
                    request, srcIdx, lastError, shouldFallback, songId, fw,
                    upstreamRes, healthVars >>

\* the answer of POST /v1/parse (index.js:577-594, 626-643)
AssetParseAnswer(r) ==
    /\ pc = "asset_parse"
    /\ IF r.kind = "net" \/ ~Ok(r) \/ r.body = "notjson"
       THEN /\ pc' = "done"
            /\ reply' = ProxyError(502, IF r.kind = "http" /\ ~Ok(r)
                                        THEN "parse failed"
                                        ELSE "asset fetch failed")
            /\ UNCHANGED << outbound, calls >>
       ELSE IF r.body # "song_full"
       THEN /\ pc' = "done"
            /\ reply' = ProxyError(404, "asset not found")
            /\ UNCHANGED << outbound, calls >>
       ELSE /\ pc' = "asset_get"
            /\ outbound' = PlainAssetRequest(AssetUrl(request))
            /\ calls' = [calls EXCEPT !.assets = @ + 1]
            /\ reply' = reply
    /\ fwLog' = Append(fwLog, r)
    /\ UNCHANGED << templateVars, upstreamCalls, CONFIG, UA_FILTER_ENABLED,
                    cachedHealthStatus, clock,
                    request, srcIdx, lastError, shouldFallback, songId, fw,
                    upstreamRes, healthVars >>

\* the answer of the GET to the cover or lyric URL (index.js:594-600,
\* 643-650)
AssetAnswer(a) ==
    /\ pc = "asset_get"
    /\ upstreamRes' = a
    /\ pc' = "done"
    /\ reply' = IF a.kind = "net" THEN ProxyError(502, "asset fetch failed")
                ELSE AssetReply(request.route, a)
    /\ UNCHANGED << templateVars, upstreamCalls, CONFIG, UA_FILTER_ENABLED,
                    cachedHealthStatus, clock,
                    request, srcIdx, lastError, shouldFallback, songId, fw,
                    fwLog, calls, outbound, healthVars >>

---------------------------------------------------------------------------
(* /health, index.js:453, and the health cache as the proxy endpoints and  *)
(* /health find it                                                         *)

\* index.js:453: { status: 'ok', timestamp: new Date().toISOString() }
Liveness(now) == [status |-> "ok", timestamp |-> now]

\* the request arrives: the UA hook, then the handler, which awaits nothing
HealthRequest(ua) ==
    /\ pc = "idle"
    /\ request' = [NoRequest EXCEPT !.route = "/health", !.ua = ua]
    /\ pc' = "done"
    /\ reply' = IF UaBlocked("/health", ua) THEN StatusPage
                ELSE [NoReply EXCEPT !.status = 200, !.type = "json",
                                     !.body = Liveness(clock)]
    /\ UNCHANGED << templateVars, upstreamCalls, CONFIG, UA_FILTER_ENABLED,
                    cachedHealthStatus, clock,
                    srcIdx, lastError, shouldFallback, songId, fw, fwLog,
                    calls, proxyVars, healthVars >>

\* a browser request to `/` served meanwhile ends its probe and rewrites the
\* cache (index.js:133-159); it found the cache stale when it started
ConcurrentRefresh(o) ==
    /\ ~IsFresh(clock, cachedHealthStatus)
    /\ cachedHealthStatus' = Refreshed(o, clock)
    /\ UNCHANGED << templateVars, upstreamCalls, CONFIG, UA_FILTER_ENABLED,
                    clock, rootVars, fw, fwLog,
                    proxyVars, healthVars >>

InitProxy ==
    /\ CONFIG = DefaultConfig
    /\ UA_FILTER_ENABLED \in BOOLEAN
    /\ IdleFrame
    /\ IdleHealth
    /\ IdleTemplate
    /\ upstreamCalls = NotCounted

NextProxy ==
    \/ \E ua \in UserAgents, source \in {"", "kuwo", "netease"},
          id \in {"", "1002"}, br \in {"", "128k"},
          range \in {"", "bytes=0-99"} :
          StreamRequest(ua, source, id, br, range)
    \/ \E r \in Answers(ParseBodies) : StreamParseAnswer(r)
    \/ \E a \in AssetAnswers : StreamAudioAnswer(a)
    \/ \E route \in AssetRoutes, ua \in UserAgents,
          source \in {"", "kuwo", "netease"}, id \in {"", "1002"} :
          AssetRequest(route, ua, source, id)
    \/ \E r \in Answers(ParseBodies) : AssetParseAnswer(r)
    \/ \E a \in AssetAnswers : AssetAnswer(a)
    \/ \E ua \in UserAgents : HealthRequest(ua)
    \/ \E o \in ProbeOutcomes : ConcurrentRefresh(o)

SpecProxy == InitProxy /\ [][NextProxy]_vars

---------------------------------------------------------------------------
(* /fallback-stream and /fallback-lyric, index.js:656-716: one GET to the  *)
(* fallback API, relayed                                                   *)

FallbackRoutes == {"/fallback-stream", "/fallback-lyric"}

\* index.js:667-673, 701-704: the GET and its User-Agent header
FallbackProxyGet(route, id) ==
    [NoOutbound EXCEPT
        !.url = Url("fallback",
                    IF route = "/fallback-stream" THEN "type=song"
                    ELSE "type=lyr", "", id),
        !.ua = IF route = "/fallback-stream" THEN "Mozilla/5.0"
               ELSE "Mozilla/5.0 (short)"]

\* index.js:680-686, 711-713
FallbackProxyReply(route, a) ==
    IF route = "/fallback-stream"
    THEN [NoReply EXCEPT
            !.status = 200, !.type = "stream",
            !.headers.content_type = IF a.content_type # "" THEN a.content_type
                                     ELSE "audio/mpeg",
            !.headers.accept_ranges = "bytes",
            !.headers.content_length = a.content_length]
    ELSE [NoReply EXCEPT
            !.status = 200, !.type = "stream",
            !.headers.content_type = "text/plain; charset=utf-8"]

\* the request arrives: the UA hook, then the handler up to its fetch
\* (index.js:657-667, 693-701)
FallbackProxyRequest(route, ua, id) ==
    /\ pc = "idle"
    /\ request' = [NoRequest EXCEPT !.route = route, !.ua = ua, !.id = id]
    /\ IF UaBlocked(route, ua)
       THEN pc' = "done" /\ reply' = StatusPage /\ UNCHANGED << outbound, calls >>
       ELSE IF id = ""
       THEN /\ pc' = "done"
            /\ reply' = ProxyError(400, "missing id")
            /\ UNCHANGED << outbound, calls >>
       ELSE /\ pc' = "fallback_get"
            /\ reply' = reply
            /\ outbound' = FallbackProxyGet(route, id)
            /\ calls' = [calls EXCEPT !.assets = @ + 1]
    /\ UNCHANGED << templateVars, upstreamCalls, CONFIG, UA_FILTER_ENABLED,
                    cachedHealthStatus, clock, srcIdx, lastError,
                    shouldFallback, songId, fw, fwLog, upstreamRes,
                    healthVars >>

\* the fallback API answers (index.js:675-689, 706-716)
FallbackProxyAnswer(a) ==
    /\ pc = "fallback_get"
    /\ upstreamRes' = a
    /\ pc' = "done"
    /\ reply' = IF a.kind = "net" \/ a.status < 200 \/ a.status > 299
                THEN ProxyError(502, "fallback fetch failed")
                ELSE FallbackProxyReply(request.route, a)
    /\ UNCHANGED << templateVars, upstreamCalls, CONFIG, UA_FILTER_ENABLED,
                    cachedHealthStatus, clock, request, srcIdx, lastError,
                    shouldFallback, songId, fw, fwLog, calls, outbound,
                    healthVars >>

---------------------------------------------------------------------------
(* One request to any route of the service *)

InitRoutes ==
    /\ CONFIG \in {[DefaultConfig EXCEPT !.FORCE_FALLBACK = b] : b \in BOOLEAN}
    /\ UA_FILTER_ENABLED \in BOOLEAN
    /\ IdleFrame
    /\ IdleHealth
    /\ IdleTemplate
    /\ upstreamCalls = NotCounted

NextRoutes ==
    \/ Next
    \/ NextProxy
    \/ \E route \in FallbackRoutes, ua \in UserAgents, id \in {"", "1002"} :
          FallbackProxyRequest(route, ua, id)
    \/ \E a \in AssetAnswers : FallbackProxyAnswer(a)

SpecRoutes == InitRoutes /\ [][NextRoutes]_vars

---------------------------------------------------------------------------
(* checkServiceHealth under concurrent requests, index.js:106-160.  Each   *)
(* caller is a browser request to `/` stopped by the UA hook; a caller     *)
(* that is done serves the next such request.                              *)

Callers == 1..NumCallers

\* the call up to its first await (index.js:107-132): a fresh cache is
\* returned, otherwise the probe goes out
HealthCall(p) ==
    /\ hpc[p] \in {"idle", "done"}
    /\ hnow' = [hnow EXCEPT ![p] = clock]
    /\ hseen' = [hseen EXCEPT ![p] = cachedHealthStatus]
    /\ IF IsFresh(clock, cachedHealthStatus)
       THEN /\ hpc' = [hpc EXCEPT ![p] = "done"]
            /\ hobs' = [hobs EXCEPT ![p] = cachedHealthStatus.status]
            /\ hprobed' = [hprobed EXCEPT ![p] = FALSE]
       ELSE /\ hpc' = [hpc EXCEPT ![p] = "probing"]
            /\ hobs' = [hobs EXCEPT ![p] = ""]
            /\ hprobed' = [hprobed EXCEPT ![p] = TRUE]
    /\ UNCHANGED << templateVars, upstreamCalls, CONFIG, UA_FILTER_ENABLED,
                    cachedHealthStatus, clock,
                    rootVars, fw, fwLog, proxyVars, ticks >>

\* the probe ends (index.js:133-159): the cache is rewritten with the
\* caller's own `now` and returned
HealthProbeDone(p, o) ==
    /\ hpc[p] = "probing"
    /\ cachedHealthStatus' = Refreshed(o, hnow[p])
    /\ hobs' = [hobs EXCEPT ![p] = cachedHealthStatus'.status]
    /\ hpc' = [hpc EXCEPT ![p] = "done"]
    /\ fwLog' = << o >>
    /\ UNCHANGED << templateVars, upstreamCalls, CONFIG, UA_FILTER_ENABLED,
                    clock, rootVars, fw, proxyVars, hnow, hseen, hprobed,
                    ticks >>

\* time passes; a probe is aborted 5 s after it started (index.js:114)
Tick(d) ==
    /\ ticks < MaxTicks
    /\ \A p \in Callers : hpc[p] = "probing" => clock + d - hnow[p] <= PROBE_TIMEOUT
    /\ clock' = clock + d
    /\ ticks' = ticks + 1
    /\ UNCHANGED << templateVars, upstreamCalls, CONFIG, UA_FILTER_ENABLED,
                    cachedHealthStatus, rootVars,
                    fw, fwLog, proxyVars, hpc, hnow, hseen, hobs, hprobed >>

InitHealth ==
    /\ CONFIG \in {[DefaultConfig EXCEPT !.FORCE_FALLBACK = b] : b \in BOOLEAN}
    /\ UA_FILTER_ENABLED = TRUE
    /\ IdleFrame
    /\ IdleHealth
    /\ IdleTemplate
    /\ upstreamCalls = NotCounted

NextHealth ==
    \/ \E p \in Callers : HealthCall(p)
    \/ \E p \in Callers, o \in ProbeOutcomes : HealthProbeDone(p, o)
    \/ \E d \in {PROBE_TIMEOUT, HEALTH_CHECK_INTERVAL} : Tick(d)

SpecHealth == InitHealth /\ [][NextHealth]_vars

\* a finished call that was made within 60 s of the cached lastCheck
InWindow(p) ==
    /\ hpc[p] = "done"
    /\ hnow[p] - hseen[p].lastCheck < 60000

Later(a, b) == IF a >= b THEN a ELSE b

\* C10 as stated: calls made within 60 s of the cache's last check all
\* observe the same status, and none of them probes
C10_SameValueInWindow ==
    \A p, q \in Callers :
        (/\ InWindow(p) /\ InWindow(q)
         /\ LET L == Later(hseen[p].lastCheck, hseen[q].lastCheck)
            IN  /\ L <= hnow[p] /\ hnow[p] < L + 60000
                /\ L <= hnow[q] /\ hnow[q] < L + 60000)
        => /\ hobs[p] = hobs[q]
           /\ ~hprobed[p] /\ ~hprobed[q]

\* C10 amended: a call made within 60 s of the cached lastCheck issues no
\* probe and returns the entry cached at that moment (two such calls can
\* still differ: a refresh already in flight may rewrite the cache between
\* them)
C10_InWindowNoProbe ==
    \A p \in Callers :
        InWindow(p) => /\ ~hprobed[p]
                       /\ hobs[p] = hseen[p].status

C10_Witness ==
    /\ InWindow(1) /\ InWindow(2)
    /\ hseen[1].lastCheck > 0 /\ hseen[2].lastCheck > 0
    /\ hnow[1] # hnow[2]
    /\ ~hprobed[1] /\ ~hprobed[2]
    /\ hobs[1] = "degraded" /\ hobs[2] = "degraded"

Age(p) == hnow[p] - hseen[p].lastCheck

\* C11 as stated: whatever the interleaving, two probes are never issued
\* within 60 s of each other
C11_AtMostOneProbePerWindow ==
    \A p, q \in Callers :
        (p # q /\ hprobed[p] /\ hprobed[q] /\ hnow[p] <= hnow[q])
        => hnow[q] - hnow[p] >= HEALTH_CHECK_INTERVAL

\* C11 amended: a call issues a probe exactly when the cache entry it reads
\* is at least 60 s old; calls that each read a stale entry each issue their
\* own probe, so two probes fall within 60 s of each other only when the
\* later call did not read the earlier call's refresh
C11_ProbeIffStaleRead ==
    /\ \A p \in Callers :
          hpc[p] # "idle" => (hprobed[p] <=> Age(p) >= HEALTH_CHECK_INTERVAL)
    /\ \A p, q \in Callers :
          (/\ p # q /\ hprobed[p] /\ hprobed[q]
           /\ hnow[p] <= hnow[q]
           /\ hnow[q] - hnow[p] < HEALTH_CHECK_INTERVAL)
          => hseen[q].lastCheck < hnow[p]

C11_Witness ==
    /\ hpc[1] = "done" /\ hpc[2] = "done"
    /\ hprobed[1] /\ hprobed[2]
    /\ hnow[2] - hnow[1] = PROBE_TIMEOUT
    /\ cachedHealthStatus.lastCheck = hnow[1]

---------------------------------------------------------------------------
(* Claims on the records returned by `/` (Spec) *)

\* the response carries a song record
Success == pc = "done" /\ reply.type = "json" /\ reply.body.code = 200

\* C12 as stated: in every successful response to `/` the audio, cover and
\* lyric URLs are proxy URLs on the service's own base URL
C12_ProxyUrlsOnly ==
    Success => /\ reply.body.music_url.host = "self"
               /\ reply.body.cover.host = "self"
               /\ reply.body.lyric.host = "self"

\* the page a link points to: the text before the ID
LinkPage(l) == << l.host, l.path >>

\* C13: the link of a record from a primary source is the static template of
\* that source filled with the ID the search found (kuwo play_detail,
\* netease #/song?id=, qq songDetail), whatever else the resolver answered;
\* the fallback record's link is the kuwo template filled with its rid
C13_LinkByTemplate ==
    /\ (Success /\ reply.body.source \in Sources)
       => LET l == reply.body.link
              s == reply.body.source
          IN  /\ l.source = s
              /\ l.id = songId
              /\ s = "kuwo" => LinkPage(l) = << "www.kuwo.cn", "/play_detail/" >>
              /\ s = "netease" => LinkPage(l) = << "music.163.com", "/#/song?id=" >>
              /\ s = "qq" => LinkPage(l) = << "y.qq.com", "/n/ryqq/songDetail/" >>
    /\ (Success /\ reply.body.source = "kuwo-fallback")
       => /\ LinkPage(reply.body.link) = << "www.kuwo.cn", "/play_detail/" >>
          /\ reply.body.link.id = FallbackRid

C13_Witness ==
    /\ Success
    /\ reply.body.source = "netease"
    /\ songId = "1003"
    /\ reply.body.link = Url("music.163.com", "/#/song?id=", "netease", "1003")
    /\ reply.body.music_url.host = "self"

---------------------------------------------------------------------------
(* Claims on the fallback API's part in a request to `/` (Spec) *)

QuotaSignalled == \E i \in DOMAIN Attempts : Attempts[i].outcome = "quota"

NotFoundBody == Message(404, "song not found", Keyword(request.name, request.hame))

\* C14: a request in which a primary source signalled quota exhaustion ends
\* after exactly one call of the fallback API: with the record tagged
\* `kuwo-fallback` when that API answered with a song, and otherwise with
\* the not-found result (code 404 and the keyword), never with the quota
\* error
C14_DegradeOnceThenSuccessOrNotFound ==
    (pc = "done" /\ QuotaSignalled)
    => /\ calls.fallback = 1
       /\ calls.fallbackHit => /\ reply.body = FallbackRecord
                               /\ reply.body.source = "kuwo-fallback"
       /\ ~calls.fallbackHit => reply.body = NotFoundBody

C14_Witness ==
    /\ pc = "done" /\ QuotaSignalled
    /\ calls.fallback = 1 /\ ~calls.fallbackHit
    /\ lastError.status = 403
    /\ reply.body.code = 404
    /\ reply.body.keyword = "qingtian"

Threw(i) == Attempts[i].outcome \in {"error", "quota"}

\* C15 as stated: with FORCE_FALLBACK off the fallback API is called only
\* after a quota signal
C15_DegradeOnlyOnQuota ==
    (~CONFIG.FORCE_FALLBACK /\ calls.fallback > 0) => QuotaSignalled

\* C15 amended: with FORCE_FALLBACK off the fallback API is called (once)
\* exactly when the loop over SOURCE_PRIORITY ended without a record and some
\* attempt threw, a quota error or any other; when every source was tried and
\* each returned no result, the request ends with the not-found result and
\* the fallback API is not called
C15_DegradeIffSomeAttemptThrew ==
    ~CONFIG.FORCE_FALLBACK
    => /\ calls.fallback <= 1
       /\ calls.fallback = 1 => /\ \E i \in DOMAIN Attempts : Threw(i)
                                /\ \A i \in DOMAIN Attempts : ~Succeeded(i)
       /\ (/\ pc = "done" /\ reply.type = "json" /\ reply.status = 200
           /\ \A i \in DOMAIN Attempts : ~Succeeded(i))
          => IF \E i \in DOMAIN Attempts : Threw(i)
             THEN calls.fallback = 1
             ELSE /\ calls.fallback = 0
                  /\ Len(Attempts) = Len(CONFIG.SOURCE_PRIORITY)
                  /\ reply.body = NotFoundBody

C15_Witness ==
    /\ pc = "done" /\ ~CONFIG.FORCE_FALLBACK
    /\ Len(Attempts) = 2
    /\ Attempts[1].outcome = "error"
    /\ Attempts[2].outcome = "notfound"
    /\ calls.fallback = 1 /\ calls.fallbackHit
    /\ reply.body.source = "kuwo-fallback"

\* C17 as stated: with FORCE_FALLBACK on, a request whose call of the
\* fallback API failed is answered with HTTP status 500, and no primary
\* source is tried
C17_ForcedFailureIs500 ==
    (/\ pc = "done" /\ CONFIG.FORCE_FALLBACK
     /\ calls.fallback = 1 /\ ~calls.fallbackHit)
    => /\ reply.status = 500
       /\ Attempts = << >>

---------------------------------------------------------------------------
(* Claims on the loop over SOURCE_PRIORITY (Spec) *)

OrdinaryFailure(i) == Attempts[i].outcome \in {"notfound", "error"}

\* C22: an attempt that ended in an exception other than a quota error, or
\* that found nothing, is followed by the attempt on the next source of
\* SOURCE_PRIORITY when there is one; the request goes on to an ordinary
\* JSON result and never to the handler's 500 for an escaped exception
C22_OrdinaryFailureTriesNext ==
    /\ \A i \in DOMAIN Attempts :
          (OrdinaryFailure(i) /\ i < Len(CONFIG.SOURCE_PRIORITY))
          => /\ Len(Attempts) >= i + 1
             /\ Attempts[i + 1].source = CONFIG.SOURCE_PRIORITY[i + 1]
    /\ (pc = "done" /\ Attempts # << >>)
       => /\ reply.type = "json"
          /\ reply.status = 200
          /\ reply.body.code \in {200, 404}

C22_Witness ==
    /\ pc = "parse"
    /\ Len(Attempts) = 2
    /\ Attempts[1].outcome = "error"
    /\ lastError = Err("Server Error", 500)
    /\ Attempts[2].source = "qq"
    /\ songId = "mid1004"

\* C23 as stated: the loop is left for the fallback API on a quota signal
\* only when it was the resolve call that reported 402 or 403; any other
\* failure moves on to the next source
C23_QuotaOnlyFromResolve ==
    \A i \in DOMAIN Attempts :
        Attempts[i].outcome = "quota"
        <=> /\ i = Len(Attempts)
            /\ lastError.text = "parse failed"
            /\ lastError.status \in {402, 403}

\* a network failure or a 5xx, as the adapter reports it
Transient(err) ==
    \/ err.text \in {"fetch failed", "Server Error"}
    \/ err.text = "search failed" /\ err.status >= 500

\* the current attempt ends in an exception in this step
AttemptThrows ==
    /\ Attempts # << >>
    /\ Attempts[Len(Attempts)].outcome = "pending"
    /\ Len(Attempts') >= Len(Attempts)
    /\ Attempts'[Len(Attempts)].outcome = "error"

\* C24 as stated, for the three calls of a source attempt: with
\* MAX_RETRIES >= 1, no call (descriptor fetch, search request, resolve
\* call) propagates a transient failure to the orchestrator on its first
\* answer, i.e. without having been retried
C24_TransientRetriedBeforePropagating ==
    [][(/\ pc \in {"methods", "search", "parse"}
        /\ fw.requests = 0
        /\ CONFIG.MAX_RETRIES >= 1
        /\ AttemptThrows)
       => ~Transient(lastError')]_vars

\* a URL of the record is absent or belongs to source s and song ID i
OfSong(u, s, i) == u = NoUrl \/ (u.source = s /\ u.id = i)

\* C25: once an attempt has succeeded the request is over with that
\* attempt as its last: no further source and no fallback API is ever called,
\* and every field of the record sent comes from that source and the song
\* ID found on it, also when earlier sources failed
C25_SuccessIsTerminal ==
    \A i \in DOMAIN Attempts :
        Succeeded(i)
        => /\ pc = "done"
           /\ i = Len(Attempts)
           /\ calls.fallback = 0
           /\ fw = FwIdle
           /\ LET b == reply.body
                  s == Attempts[i].source
              IN  /\ b.code = 200 /\ b.source = s
                  /\ b.link # NoUrl /\ b.music_url # NoUrl /\ b.lyric # NoUrl
                  /\ OfSong(b.link, s, songId)
                  /\ OfSong(b.music_url, s, songId)
                  /\ OfSong(b.cover, s, songId)
                  /\ OfSong(b.lyric, s, songId)

C25_Witness ==
    /\ Len(Attempts) = 2
    /\ Attempts[1] = [source |-> "kuwo", outcome |-> "error"]
    /\ lastError.text = "parse song failed"
    /\ Attempts[2] = [source |-> "qq", outcome |-> "success"]
    /\ reply.body.cover = Url("cdn", "/cover", "qq", "mid1004")
    /\ calls.fallback = 0

---------------------------------------------------------------------------
(* Claims on the steps of a source attempt (Spec) *)

\* the search responses that carry a usable song ID, per source
Hits ==
    { << "kuwo", "kuwo_dc" >>, << "kuwo", "kuwo_rid" >>,
      << "netease", "netease_hit" >>, << "qq", "qq_hit" >> }

AttemptPending ==
    /\ Attempts # << >>
    /\ Attempts[Len(Attempts)] = [source |-> Source, outcome |-> "pending"]

\* C28: in a source attempt the search request is out only after the
\* descriptor fetch returned a 200 with a valid descriptor, and the resolve
\* call only after the search request, with the song ID that the search
\* response carried for this very source; the ID and the source stay the
\* same while the resolve call is retried
C28_DescriptorSearchResolveInOrder ==
    /\ [](pc = "search"
          => /\ AttemptPending
             /\ fw.res = Http(200, "cfg_ok")
             /\ songId = Null)
    /\ [](pc = "parse"
          => /\ AttemptPending
             /\ songId # Null
             /\ \E b \in SearchBodies :
                   << Source, b >> \in Hits /\ songId = extractSongId(b, Source))
    /\ [][(pc' = "search" /\ pc # "search") => pc = "methods"]_vars
    /\ [][(pc' = "parse" /\ pc # "parse") => pc = "search"]_vars
    /\ [][(pc = "parse" /\ pc' = "parse")
          => (songId' = songId /\ srcIdx' = srcIdx)]_vars

C28_Witness ==
    /\ pc = "parse"
    /\ Source = "kuwo" /\ songId = "dc1001"
    /\ fw.requests = 1
    /\ fw.lastError = Err("fetch failed", 0)

---------------------------------------------------------------------------
(* Claims on the UA hook (Spec) *)

\* the search began: a primary source or the fallback API was called
SearchBegan == Len(Attempts) + calls.fallback >= 1

\* C19: with the UA filter on, a request to `/` whose User-Agent contains
\* MicroMessenger (browser keywords or not) or no blacklisted keyword (absent
\* included) reaches the search handler as it came: no status page, no
\* health probe, and the search begins when a keyword is given; any other
\* request is answered by the hook with the 200 HTML page, and neither a
\* primary source nor the fallback API is ever called for it
C19_UaFilterPassOrPlaceholder ==
    (UA_FILTER_ENABLED /\ request.route = "/")
    => IF "MicroMessenger" \in request.ua \/ request.ua \cap BROWSER_BLACKLIST = {}
       THEN /\ pc # "health"
            /\ calls.probes = 0
            /\ reply.type # "html"
            /\ IF Keyword(request.name, request.hame) = ""
               THEN pc = "done" /\ reply.status = 400
               ELSE SearchBegan
       ELSE /\ pc \in {"health", "done"}
            /\ ~SearchBegan
            /\ calls.resolves = 0 /\ calls.assets = 0
            /\ pc = "done" => reply = StatusPage /\ reply.status = 200

C19_Witness ==
    /\ UA_FILTER_ENABLED /\ request.route = "/"
    /\ request.ua = {"MicroMessenger", "Chrome/", "Safari/"}
    /\ request.name = "qingtian"
    /\ Success
    /\ reply.body.source = "kuwo"

---------------------------------------------------------------------------
(* Claims on the proxy endpoints (SpecProxy) *)

ProxyRoutes == {"/stream"} \cup AssetRoutes

\* the resolve call failed: no answer, or a status outside 2xx
ResolveFailed == fwLog # << >> /\ ~Ok(fwLog[1])

\* the asset fetch failed: no answer, or a status outside 2xx
AssetFetchFailed ==
    \/ upstreamRes.kind = "net"
    \/ upstreamRes.kind = "http" /\ ~(upstreamRes.status \in 200..299)

\* C16 as stated: on /stream, /cover and /lyric a failed resolve call or a
\* failed asset fetch is answered with HTTP 502
C16_UpstreamFailureIs502 ==
    (/\ pc = "done" /\ request.route \in ProxyRoutes
     /\ (ResolveFailed \/ AssetFetchFailed))
    => reply.status = 502

\* C18: a request to /stream, /cover or /lyric without `source` or without
\* `id` is answered at once with HTTP 400: no resolve call and no asset fetch
\* is ever issued for it
C18_MissingParams400 ==
    (/\ request.route \in ProxyRoutes
     /\ (request.source = "" \/ request.id = ""))
    => /\ pc = "done"
       /\ reply.status = 400
       /\ reply.type = "json"
       /\ calls = NoCalls
       /\ outbound = NoOutbound
       /\ fwLog = << >>

C18_Witness ==
    /\ request.route = "/lyric"
    /\ request.source = "netease" /\ request.id = ""
    /\ UA_FILTER_ENABLED /\ request.ua = {"Chrome/", "Safari/"}
    /\ pc = "done"
    /\ reply.status = 400

\* C20 as stated, for the asset fetches: the GET a proxy endpoint issues
\* upstream carries the fixed User-Agent that fetchWithRetry and /stream
\* attach ('Mozilla/5.0 (Windows NT 10.0; Win64; x64) AppleWebKit/537.36',
\* written "Mozilla/5.0" here)
C20_FixedUserAgent ==
    outbound # NoOutbound => outbound.ua = "Mozilla/5.0"

\* C21: a request to /health is answered at once with status 200 and
\* {status: "ok", timestamp}, whatever its User-Agent and whatever the health
\* cache holds, and no upstream call is issued for it
C21_HealthAlwaysOk ==
    request.route = "/health"
    => /\ pc = "done"
       /\ reply.status = 200 /\ reply.type = "json"
       /\ reply.body.status = "ok"
       /\ reply.body.timestamp = clock
       /\ calls = NoCalls
       /\ outbound = NoOutbound
       /\ fwLog = << >>

C21_Witness ==
    /\ request.route = "/health"
    /\ UA_FILTER_ENABLED /\ request.ua = {"Chrome/", "Safari/"}
    /\ cachedHealthStatus.status = "error"
    /\ pc = "done"
    /\ reply.body.status = "ok"

ValidProxyRequest ==
    /\ request.route \in ProxyRoutes
    /\ request.source # "" /\ request.id # ""

\* C26: a request to /stream, /cover or /lyric with `source` and `id` issues
\* its one resolve call at once and at most one asset GET, the GET only
\* after the resolve call answered with the URL; each call gets one answer
\* (no retry: a failure ends the request), and the fallback API is not called
C26_OneResolveAtMostOneAsset ==
    ValidProxyRequest
    => /\ calls.resolves = 1
       /\ calls.assets <= 1
       /\ calls.fallback = 0 /\ calls.primary = << >>
       /\ fw = FwIdle
       /\ Len(fwLog) <= 1
       /\ fwLog = << >> <=> pc \in {"stream_parse", "asset_parse"}
       /\ calls.assets = 1 <=> (fwLog # << >> /\ fwLog[1] = Http(200, "song_full"))
       /\ calls.assets = 1 <=> outbound # NoOutbound
       /\ upstreamRes # NoAsset => (pc = "done" /\ calls.assets = 1)
       /\ outbound # NoOutbound
          => /\ outbound.url.source = request.source
             /\ outbound.url.id = request.id

C26_Witness ==
    /\ ValidProxyRequest /\ request.route = "/cover"
    /\ pc = "done"
    /\ calls.resolves = 1 /\ calls.assets = 1
    /\ upstreamRes.kind = "net"
    /\ reply.status = 502

---------------------------------------------------------------------------
(* Claims on shared state *)

---------------------------------------------------------------------------
(* Template substitution, index.js:801-814.  A string is a sequence of    *)
(* pieces: "{{" and "}}" are the braces, "keyword", "page", "limit" and    *)
(* "u" the names written between them, "x" and "a" plain text, "$$" and    *)
(* "$&" the patterns String.prototype.replace interprets in a replacement  *)
(* string.  Pieces are lower case, so the i flag plays no part.            *)

Placeholder(n) == << "{{", n, "}}" >>

\* the parts a descriptor writes a params value with
Segments == {Placeholder("keyword"), Placeholder("page"), Placeholder("limit"),
             Placeholder("u"), << "x" >>}

KeywordPieces == {"a", "$$", "$&"}

\* sequences over S of length 1..n
Strings(S, n) == UNION {[1..k -> S] : k \in 1..n}

RECURSIVE Flatten(_)
\* String(value): the parts of a value written one after the other
Flatten(ss) == IF ss = << >> THEN << >> ELSE Head(ss) \o Flatten(Tail(ss))

\* the first index from i on at which s holds piece t, 0 when none does
First(s, i, t) ==
    IF \E k \in i..Len(s) : s[k] = t
    THEN CHOOSE k \in i..Len(s) : s[k] = t /\ \A m \in i..(k - 1) : s[m] # t
    ELSE 0

\* where the match that starts at index i ends, 0 when none starts there:
\* "keyword" is /\{\{keyword\}\}/, "page" /\{\{.*?page.*?\}\}/, "limit"
\* /\{\{.*?limit.*?\}\}/ and "any" /\{\{.*?\}\}/; a lazy .*? stops at the
\* first piece that lets the rest of the pattern match
MatchEnd(re, s, i) ==
    IF s[i] # "{{" THEN 0
    ELSE IF re = "keyword"
    THEN IF i + 2 <= Len(s) /\ s[i + 1] = "keyword" /\ s[i + 2] = "}}"
         THEN i + 2 ELSE 0
    ELSE IF re = "any" THEN First(s, i + 1, "}}")
    ELSE LET j == First(s, i + 1, re)
         IN  IF j = 0 THEN 0 ELSE First(s, j + 1, "}}")

RECURSIVE GetSubstitution(_, _)
\* what replace() puts in for a match: the replacement string with $$ read
\* as one dollar sign and $& as the matched text
GetSubstitution(matched, replacement) ==
    IF replacement = << >> THEN << >>
    ELSE LET h == Head(replacement)
         IN  (IF h = "$$" THEN << "$" >>
              ELSE IF h = "$&" THEN matched
              ELSE << h >>) \o GetSubstitution(matched, Tail(replacement))

RECURSIVE ReplaceFrom(_, _, _, _)
\* the g flag: matches are taken left to right, the scan going on after
\* each match, over the text as it was before the call
ReplaceFrom(s, re, replacement, i) ==
    IF i > Len(s) THEN << >>
    ELSE LET e == MatchEnd(re, s, i)
         IN  IF e = 0
             THEN << s[i] >> \o ReplaceFrom(s, re, replacement, i + 1)
             ELSE GetSubstitution(SubSeq(s, i, e), replacement)
                  \o ReplaceFrom(s, re, replacement, e + 1)

Replace(s, re, replacement) == ReplaceFrom(s, re, replacement, 1)

\* index.js:805-809: the four replace calls on one params value
SubstituteTemplate(v, kw) ==
    LET p0 == Flatten(v)
        p1 == Replace(p0, "keyword", kw)
        p2 == Replace(p1, "page", << "0" >>)
        p3 == Replace(p2, "limit", << "10" >>)
    IN  Replace(p3, "any", << >>)

\* the body of the loop over searchConfig.params for one entry
SubstituteParam ==
    /\ pc = "template"
    /\ paramValue' = SubstituteTemplate(value, keyword)
    /\ pc' = "search"
    /\ UNCHANGED << CONFIG, UA_FILTER_ENABLED, cachedHealthStatus, clock,
                    request, srcIdx, lastError, shouldFallback, songId, fw,
                    reply, calls, fwLog, proxyVars, healthVars, keyword,
                    value, upstreamCalls >>

InitTemplate ==
    /\ CONFIG = DefaultConfig
    /\ UA_FILTER_ENABLED = TRUE
    /\ IdleHealth
    /\ request = NoRequest
    /\ pc = "template"
    /\ srcIdx = 0
    /\ lastError = NoErr
    /\ shouldFallback = FALSE
    /\ songId = Null
    /\ fw = FwIdle
    /\ reply = NoReply
    /\ calls = NoCalls
    /\ fwLog = << >>
    /\ outbound = NoOutbound
    /\ upstreamRes = NoAsset
    /\ keyword \in Strings(KeywordPieces, MaxKeywordLen)
    /\ value \in Strings(Segments, MaxSegments)
    /\ paramValue = << >>
    /\ upstreamCalls = NotCounted

NextTemplate == SubstituteParam

SpecTemplate == InitTemplate /\ [][NextTemplate]_vars

---------------------------------------------------------------------------
(* Claims on template substitution (SpecTemplate) *)

\* a part of a value with its placeholder filled in as the substitution is
\* described: the keyword as given, 0 for page, 10 for limit, nothing for
\* any other name
Filled(seg, kw) ==
    IF seg = Placeholder("keyword") THEN kw
    ELSE IF seg = Placeholder("page") THEN << "0" >>
    ELSE IF seg = Placeholder("limit") THEN << "10" >>
    ELSE IF Head(seg) = "{{" THEN << >>
    ELSE seg

RECURSIVE FilledAll(_, _)
FilledAll(v, kw) ==
    IF v = << >> THEN << >> ELSE Filled(Head(v), kw) \o FilledAll(Tail(v), kw)

\* an opening brace pair with a closing one after it
HasPlaceholder(s) ==
    \E i, k \in 1..Len(s) : i < k /\ s[i] = "{{" /\ s[k] = "}}"

\* C30: the parameter sent to the search upstream is the descriptor's value
\* with every {{keyword}} replaced by the request keyword exactly as given,
\* every page placeholder by 0, every limit placeholder by 10 and every
\* other placeholder by the empty string, and it holds no placeholder
C30_TemplateSubstitution ==
    (pc = "search" /\ value # << >>)
    => /\ paramValue = FilledAll(value, keyword)
       /\ ~HasPlaceholder(paramValue)


\* C31 as stated: the GET a proxy endpoint issues for the asset carries the
\* Referer https://music.163.com/ exactly when the request's source is
\* netease
C31_RefererIffNetease ==
    outbound # NoOutbound
    => (outbound.referer = "https://music.163.com/"
        <=> request.source = "netease")


---------------------------------------------------------------------------
(* Claims on concurrent health refreshes (SpecHealth) *)

\* the calls whose probe has been sent, and the latest start among them
Probers == {p \in Callers : hprobed[p]}
LastStart == CHOOSE t \in {hnow[p] : p \in Probers} :
                \A q \in Probers : hnow[q] <= t

\* C32 as stated: cachedHealthStatus.lastCheck never decreases, and once no
\* probe is in flight the cache holds the start time of the refresh that
\* started last
C32_LastCheckNeverDecreases ==
    /\ [][cachedHealthStatus'.lastCheck >= cachedHealthStatus.lastCheck]_vars
    /\ []((Probers # {} /\ \A p \in Callers : hpc[p] # "probing")
          => cachedHealthStatus.lastCheck = LastStart)


---------------------------------------------------------------------------
(* Claims on the number of upstream calls (SpecCount) *)

\* upstream calls issued so far: those that have returned or failed and the
\* one awaited
PrimaryIssued ==
    upstreamCalls.primary
    + (IF pc \in {"methods", "search", "parse"} THEN 1 ELSE 0)
FallbackIssued ==
    upstreamCalls.fallback + (IF pc \in {"forced", "fallback"} THEN 1 ELSE 0)

\* C33: a request to `/` issues at most |SOURCE_PRIORITY| * (2 *
\* (MAX_RETRIES + 1) + 1) primary calls and at most MAX_RETRIES + 1 fallback
\* calls, and, every call returning or failing, it ends with a response
C33_BoundedUpstreamCalls ==
    /\ [](PrimaryIssued <= Len(CONFIG.SOURCE_PRIORITY)
                             * (2 * (CONFIG.MAX_RETRIES + 1) + 1))
    /\ [](FallbackIssued <= CONFIG.MAX_RETRIES + 1)
    /\ <>(pc = "done" /\ reply # NoReply)

C33_Witness ==
    /\ pc = "done" /\ reply # NoReply
    /\ CONFIG.MAX_RETRIES = 1 /\ Len(CONFIG.SOURCE_PRIORITY) = 2
    /\ upstreamCalls.primary = 10
    /\ upstreamCalls.fallback = 2


---------------------------------------------------------------------------
(* Claims on the outcome of a health probe (SpecHealth) *)

\* the status a probe's outcome stands for
StatusFor(o) ==
    IF o.kind = "http" /\ o.status < 500 THEN "ok"
    ELSE IF o.kind = "http" THEN "degraded"
    ELSE IF o.kind = "abort" THEN "degraded"
    ELSE IF o.kind = "cert" THEN "ok"
    ELSE "error"

\* the variables of caller p
CallOf(p) == << hpc[p], hnow[p], hseen[p], hobs[p], hprobed[p] >>

\* C34: a probe that ends, whatever its outcome, rewrites the cache with the
\* status its outcome stands for (below 500 ok, 500 and above degraded,
\* abort degraded, certificate error ok, other network error error) and
\* with lastCheck = the time its call started; a call made less than 60 s
\* after the cached lastCheck is answered from the cache, failed result or
\* not, without a probe and without touching the cache
C34_ProbeResultCached ==
    /\ [](cachedHealthStatus.status \in {"ok", "degraded", "error"})
    /\ [][\A p \in Callers :
            (hpc[p] = "probing" /\ hpc'[p] = "done")
            => /\ fwLog' # << >>
               /\ cachedHealthStatus' = [status |-> StatusFor(fwLog'[1]),
                                         lastCheck |-> hnow[p]]
               /\ hobs'[p] = StatusFor(fwLog'[1])]_vars
    /\ [][\A p \in Callers :
            (/\ hpc[p] # "probing" /\ CallOf(p)' # CallOf(p)
             /\ clock - cachedHealthStatus.lastCheck < HEALTH_CHECK_INTERVAL)
            => /\ hpc'[p] = "done" /\ ~hprobed'[p]
               /\ hobs'[p] = cachedHealthStatus.status
               /\ cachedHealthStatus' = cachedHealthStatus]_vars

C34_Witness ==
    \E p, q \in Callers :
        /\ p # q
        /\ hpc[p] = "done" /\ hprobed[p]
        /\ fwLog = << [kind |-> "net", status |-> 0, body |-> ""] >>
        /\ cachedHealthStatus = [status |-> "error", lastCheck |-> hnow[p]]
        /\ hpc[q] = "done" /\ ~hprobed[q] /\ hobs[q] = "error"
        /\ hnow[q] = hnow[p] + PROBE_TIMEOUT


---------------------------------------------------------------------------
(* Claims on the reach of the UA hook (SpecRoutes) *)

\* a browser request to `/` (no MicroMessenger in its User-Agent) while the
\* filter is enabled
BlockedBrowserAtRoot ==
    /\ request.route = "/"
    /\ UA_FILTER_ENABLED
    /\ "MicroMessenger" \notin request.ua
    /\ request.ua \cap BROWSER_BLACKLIST # {}

\* C35: the hook's page is sent, and a health probe is issued, only for a
\* browser request to `/` while the filter is enabled: a request to any
\* other route, and every request while the filter is off, reaches its
\* handler and causes no probe
C35_HookOnlyAtRoot ==
    /\ reply.type = "html" => BlockedBrowserAtRoot
    /\ (pc = "health" \/ calls.probes > 0) => BlockedBrowserAtRoot
    /\ (pc = "done" /\ ~BlockedBrowserAtRoot) => reply.type \in {"json", "stream"}

C35_Witness ==
    /\ UA_FILTER_ENABLED
    /\ request.route = "/fallback-stream"
    /\ request.ua = {"Chrome/", "Safari/"}
    /\ pc = "done"
    /\ reply.type = "stream"
    /\ calls.probes = 0

=============================================================================
